---- MODULE Spec2Model ----
(***************************************************************************)
(* uriproj: projection cache keyed by CRS URI.  The model follows the     *)
(* revision of src/index.js that exports get, load and set                 *)
(* (src/rollup.config.template.js, lines 122-288); the earlier revision    *)
(* in the same file (lines 25-121), which has no set(), is not modelled.   *)
(*                                                                         *)
(* Strings are sequences of chunks; a chunk stands for a run of            *)
(* characters that the code never splits.  JavaScript values are records   *)
(* tagged by the field t.                                                  *)
(***************************************************************************)
EXTENDS Integers, Sequences, FiniteSets, TLC

(* ------------------------------ bounds --------------------------------- *)
\* number of load() invocations in a run
MaxLoads == 2
\* number of set() invocations made by the caller in a run
MaxSets == 2
\* coordinates range over -CoordMax..CoordMax in each component
CoordMax == 2

(* --------------------------- JavaScript values -------------------------- *)
Undefined == [t |-> "undefined"]
Null == [t |-> "null"]
Str(s) == [t |-> "string", s |-> s]
Bool(b) == [t |-> "boolean", b |-> b]
\* an Error object: its constructor name and its message
Err(name, message) == [t |-> "error", name |-> name, message |-> message]
\* ToBoolean on the values of this model
Truthy(v) ==
  ~(\/ v.t \in {"undefined", "null"}
    \/ (v.t = "string" /\ v.s = <<>>)
    \/ (v.t = "boolean" /\ ~v.b))
typeof(v) == IF v.t \in {"string", "undefined", "function"} THEN v.t ELSE "object"

\* String.prototype.indexOf(p): first position (0-based) of p in s, or -1
indexOf(s, p) ==
  LET hits == {i \in 0..(Len(s) - Len(p)) : SubSeq(s, i + 1, i + Len(p)) = p}
  IN IF hits = {} THEN -1 ELSE CHOOSE i \in hits : \A j \in hits : i <= j
\* String.prototype.substr(n)
substr(s, n) == SubSeq(s, n + 1, Len(s))

\* completion of a synchronous function body: the cache it leaves and
\* either the returned value or the thrown error
Return(cache, v) == [type |-> "return", value |-> v, cache |-> cache]
Throw(cache, e) == [type |-> "throw", value |-> e, cache |-> cache]

(* ------------------------------ constants ------------------------------- *)
ROOT_PREFIX == <<"http://www.opengis.net/def/crs/">>
OGC_PREFIX == ROOT_PREFIX \o <<"OGC/">>
EPSG_PREFIX == ROOT_PREFIX \o <<"EPSG/0/">>

CRS84 == OGC_PREFIX \o <<"1.3/CRS84">>
EPSG4979 == EPSG_PREFIX \o <<"4979">>
EPSG4326 == EPSG_PREFIX \o <<"4326">>
EPSG27700 == EPSG_PREFIX \o <<"27700">>

\* PROJ.4 definition strings
LONLAT_DEF == <<"+proj=longlat +datum=WGS84 +no_defs">>
TMERC_DEF ==
  <<"+proj=tmerc +lat_0=49 +lon_0=-2 +k=0.9996012717 +x_0=400000 +y_0=-100000 +ellps=airy +towgs84=446.448,-125.157,542.06,0.15,0.247,0.842,-20.489 +units=m +no_defs">>
BAD_DEF == <<"<html>not a definition</html>">>
\* the definitions proj4js can construct a projection from
ValidDefs == {LONLAT_DEF, TMERC_DEF}

\* the imported proj4 function applied to a string: a projection object, or
\* a falsy result for a string it cannot construct a projection from
proj4(v) ==
  IF v.t = "string" /\ v.s \in ValidDefs
  THEN [t |-> "object", kind |-> "proj4", def |-> v.s]
  ELSE Undefined

\* reverseAxes(proj): a new object wrapping proj
reverseAxes(proj) == [t |-> "object", kind |-> "reversed", of |-> proj]

LONLAT == proj4(Str(LONLAT_DEF))

\* projection objects a caller builds itself
UserP == [t |-> "object", kind |-> "user", name |-> "P"]
UserQ == [t |-> "object", kind |-> "user", name |-> "Q"]

\* Array.prototype.reverse
ReverseArray(a) == [i \in 1..Len(a) |-> a[Len(a) + 1 - i]]

\* forward and inverse of an object that is not a reverseAxes wrapper.
\* The mathematics belongs to proj4js or to the caller: longlat on WGS84
\* leaves a WGS84 position as it is; the others stand for some transform
\* that is not symmetric in its two components, with its exact inverse.
nativeForward(proj, pos) ==
  IF proj.kind = "proj4"
  THEN IF proj.def = LONLAT_DEF THEN <<pos[1], pos[2]>>
       ELSE <<pos[1] + 4, pos[2] - 1>>
  ELSE IF proj.name = "P" THEN <<pos[1] + pos[2], pos[2]>>
  ELSE <<0 - pos[2], pos[1]>>
nativeInverse(proj, pos) ==
  IF proj.kind = "proj4"
  THEN IF proj.def = LONLAT_DEF THEN <<pos[1], pos[2]>>
       ELSE <<pos[1] - 4, pos[2] + 1>>
  ELSE IF proj.name = "P" THEN <<pos[1] - pos[2], pos[2]>>
  ELSE <<pos[2], 0 - pos[1]>>

RECURSIVE forward(_, _), inverse(_, _)

\* the wrapper's inverse passing pos on as it is
inverse_NoSwap(proj, pos) ==
  IF proj.kind = "reversed"
  THEN inverse(proj.of, pos)
  ELSE nativeInverse(proj, pos)

\* proj.forward(pos); for a wrapper: pos => proj.forward(pos).reverse()
forward(proj, pos) ==
  IF proj.kind = "reversed"
  THEN ReverseArray(forward(proj.of, pos))
  ELSE nativeForward(proj, pos)
\* proj.inverse(pos); for a wrapper: pos => proj.inverse([pos[1], pos[0]])
inverse(proj, pos) ==
  IF proj.kind = "reversed"
  THEN inverse(proj.of, <<pos[2], pos[1]>>)
  ELSE nativeInverse(proj, pos)

\* coordinate pairs
Coords == (0 - CoordMax..CoordMax) \X (0 - CoordMax..CoordMax)

\* names every plain object inherits from Object.prototype
ObjectPrototype == [toString |-> [t |-> "function", name |-> "toString"]]
InheritedKey(k) == Len(k) = 1 /\ k[1] \in DOMAIN ObjectPrototype

\* `key in obj` for a plain object with the own properties own
In(key, own) == key \in DOMAIN own \/ InheritedKey(key)
\* `obj[key]`
Lookup(own, key) ==
  IF key \in DOMAIN own THEN own[key]
  ELSE IF InheritedKey(key) THEN ObjectPrototype[key[1]]
  ELSE Undefined
\* an assignment that leaves the object with the assigned property alone
Assign_DropsOthers(own, key, v) ==
  [k \in {key} |-> v]

\* `obj[key] = v`
Assign(own, key, v) ==
  [k \in DOMAIN own \cup {key} |-> IF k = key THEN v ELSE own[k]]

needsAxesReordering == [k \in {EPSG4326} |-> Bool(TRUE)]

\* an options object; {} when no property is given
EmptyOptions == [t |-> "object", kind |-> "options"]
Options(b) == [t |-> "object", kind |-> "options", reverseAxes |-> Bool(b)]
\* the default parameter value `options={}`
DefaultOptions(options) == IF options = Undefined THEN EmptyOptions ELSE options
\* `options.reverseAxes`
ReverseAxesOf(options) ==
  IF "reverseAxes" \in DOMAIN options THEN options.reverseAxes ELSE Undefined

(* ------------------------------ functions ------------------------------- *)
\* get(crsUri)
get(cache, crsUri) == Lookup(cache, crsUri)

\* crsUriToEPSG accepting the prefix at any position (indexOf(...) >= 0)
crsUriToEPSG_AnyPosition(uri) ==
  IF indexOf(uri, EPSG_PREFIX) >= 0
  THEN [type |-> "return", value |-> substr(uri, Len(EPSG_PREFIX))]
  ELSE [type |-> "throw",
        value |-> Err("Error", <<"Unsupported CRS URI: ">> \o uri)]

\* crsUriToEPSG(uri): returns the EPSG code or throws
crsUriToEPSG(uri) ==
  IF indexOf(uri, EPSG_PREFIX) = 0
  THEN [type |-> "return", value |-> substr(uri, Len(EPSG_PREFIX))]
  ELSE [type |-> "throw",
        value |-> Err("Error", <<"Unsupported CRS URI: ">> \o uri)]

\* the url load() requests for an EPSG code
EpsgIoUrl(epsg) == <<"http://epsg.io/">> \o epsg \o <<".proj4">>

\* the identifiers bound inside set(): its three parameters.  The module
\* scope binds none of the other names the body reads as variables
\* (proj4string, proj4obj), so reading one throws a ReferenceError.
SetScope(crsUri, proj, options) ==
  [crsUri |-> crsUri, proj |-> proj, options |-> options]
Bound(env, name) == name \in DOMAIN env
ReferenceError(name) == Err("ReferenceError", <<name, " is not defined">>)

\* the string branch with the store hoisted above the parse
setString_StoresFirst(cache, env) ==
  Throw(Assign(cache, env.crsUri.s, env.proj), ReferenceError("proj4string"))

\* the body of `if (typeof proj === 'string') { ... }` in set(), then the
\* store and return that follow it
setString(cache, env) ==
  IF ~Bound(env, "proj4string")
  THEN Throw(cache, ReferenceError("proj4string"))
  ELSE
    LET env1 == [env EXCEPT !.proj = proj4(env.proj4string)] IN
    IF ~Bound(env1, "proj4obj")
    THEN Throw(cache, ReferenceError("proj4obj"))
    ELSE IF ~Truthy(env1.proj4obj)
    THEN Throw(cache, Err("Error",
                 <<"Unsupported proj4 string: ">> \o env1.proj4string.s))
    ELSE
      LET env2 == IF Truthy(ReverseAxesOf(env1.options))
                  THEN [env1 EXCEPT !.proj = reverseAxes(env1.proj4obj)]
                  ELSE env1
      IN Return(Assign(cache, env2.crsUri.s, env2.proj), env2.proj)

\* the key an assignment projCache[crsUri] uses: ToString(crsUri)
PropertyKey(v) == IF v.t = "string" THEN v.s ELSE <<v.t>>

\* set() without the test for empty arguments
set_NoEmptyTest(cache, crsUri, proj, options) ==
  LET env == SetScope(crsUri, proj, DefaultOptions(options)) IN
  IF typeof(env.proj) = "string"
  THEN Throw(cache, ReferenceError("proj4string"))
  ELSE Return(Assign(cache, PropertyKey(env.crsUri), env.proj), env.proj)

\* set() that keeps an entry already stored under crsUri
set_KeepsExisting(cache, crsUri, proj, options) ==
  LET env == SetScope(crsUri, proj, DefaultOptions(options)) IN
  IF ~Truthy(env.crsUri) \/ ~Truthy(env.proj)
  THEN Throw(cache, Err("Error", <<"crsUri and proj cannot be empty">>))
  ELSE IF typeof(env.proj) = "string"
  THEN Throw(cache, ReferenceError("proj4string"))
  ELSE IF env.crsUri.s \in DOMAIN cache
  THEN Return(cache, cache[env.crsUri.s])
  ELSE Return(Assign(cache, env.crsUri.s, env.proj), env.proj)

\* set() applying options.reverseAxes to a projection object as well
set_WrapsObjects(cache, crsUri, proj, options) ==
  LET env == SetScope(crsUri, proj, DefaultOptions(options)) IN
  IF ~Truthy(env.crsUri) \/ ~Truthy(env.proj)
  THEN Throw(cache, Err("Error", <<"crsUri and proj cannot be empty">>))
  ELSE IF typeof(env.proj) = "string"
  THEN setString(cache, env)
  ELSE IF Truthy(ReverseAxesOf(env.options))
  THEN Return(Assign(cache, env.crsUri.s, reverseAxes(env.proj)),
              reverseAxes(env.proj))
  ELSE Return(Assign(cache, env.crsUri.s, env.proj), env.proj)

\* set(crsUri, proj, options={})
set(cache, crsUri, proj, options) ==
  LET env == SetScope(crsUri, proj, DefaultOptions(options)) IN
  IF ~Truthy(env.crsUri) \/ ~Truthy(env.proj)
  THEN Throw(cache, Err("Error", <<"crsUri and proj cannot be empty">>))
  ELSE IF typeof(env.proj) = "string"
  THEN setString(cache, env)
  ELSE Return(Assign(cache, env.crsUri.s, env.proj), env.proj)

\* the initialisation storing LONLAT itself under the 4979 uri
InitialCache_Unreversed ==
  [k \in {CRS84, EPSG4979} |-> LONLAT]

\* the cache after the module body has run: two set() calls on {}
EmptyObject == [k \in {} |-> Undefined]
InitialCache ==
  LET c1 == set(EmptyObject, Str(CRS84), LONLAT, Undefined).cache
  IN set(c1, Str(EPSG4979), reverseAxes(LONLAT), Undefined).cache

(* ------------------------------- inputs --------------------------------- *)
\* a URN for the same CRS, a URI that holds the EPSG prefix but not at its
\* start, and a name inherited from Object.prototype
URN27700 == <<"urn:ogc:def:crs:EPSG::27700">>
EMBEDDED == <<"proxy?">> \o EPSG27700
TOSTRING == <<"toString">>

\* the URI strings callers pass
Uris == {CRS84, EPSG4326, EPSG27700, URN27700, EMBEDDED, TOSTRING}
\* the crsUri arguments of set(): a URI, the empty string, or none
SetUris == {Str(u) : u \in {CRS84, EPSG4326, EPSG27700}} \cup {Str(<<>>), Undefined}

\* the proj arguments of set()
Sources ==
  {UserP, UserQ, Str(LONLAT_DEF), Str(BAD_DEF), Str(<<>>), Null, Undefined}
\* the options arguments of set()
OptionArgs == {Undefined, Options(TRUE), Options(FALSE)}
\* the set() calls a caller makes while loads are in flight
SetsDuringLoads ==
  {<<Str(u), p, Undefined>> : u \in {CRS84, EPSG4326}, p \in {UserP, UserQ}}
    \cup {<<Str(EPSG4326), Str(LONLAT_DEF), Undefined>>,
          <<Str(CRS84), UserP, Options(FALSE)>>,
          <<Str(<<>>), UserP, Undefined>>}
\* the get() calls a caller makes while loads are in flight
GetsDuringLoads == {CRS84, EPSG4326}

\* what the network can deliver for a request: a response, whose ok flag
\* is true exactly for a 2xx status
Response(status, body) ==
  [ok |-> status = "200", status |-> status, body |-> body]
Responses ==
  {Response("200", b) : b \in {TMERC_DEF, BAD_DEF}}
    \cup {Response("404", <<"Not Found">>)}

(* -------------------------------- state --------------------------------- *)
VARIABLES
  projCache,   \* own properties of the projCache object
  calls,       \* the load() invocations of the run, by call number
  requests,    \* the urls passed to fetch(), in order
  nSets,       \* set() invocations the caller has made
  last         \* the caller's latest synchronous get() or set() call

vars == <<projCache, calls, requests, nSets, last>>

Calls == 1..MaxLoads

\* a load() invocation that has not been made yet
NotCalled ==
  [pc |-> "idle", uri |-> <<>>, outcome |-> "none", value |-> Undefined,
   url |-> <<>>, response |-> Undefined, setCalled |-> FALSE]

Init ==
  /\ projCache = InitialCache
  /\ calls = [c \in Calls |-> NotCalled]
  /\ requests = <<>>
  /\ nSets = 0
  /\ last = [op |-> "none"]

(* ------------------------------- load() --------------------------------- *)
\* load() without the cache test: every call goes to the URI parser
loadSync_NoCacheTest(cache, crsUri) ==
  LET epsg == crsUriToEPSG(crsUri) IN
  IF epsg.type = "throw"
  THEN [NotCalled EXCEPT !.pc = "done", !.uri = crsUri,
          !.outcome = "thrown", !.value = epsg.value]
  ELSE [NotCalled EXCEPT !.pc = "fetching", !.uri = crsUri,
          !.url = EpsgIoUrl(epsg.value)]

\* the synchronous part of load(crsUri): a cache hit returns a resolved
\* Promise; otherwise crsUriToEPSG may throw out of load; otherwise fetch
\* is called and the Promise chain is returned pending
loadSync(cache, crsUri) ==
  IF In(crsUri, cache)
  THEN [NotCalled EXCEPT !.pc = "done", !.uri = crsUri,
          !.outcome = "resolved", !.value = Lookup(cache, crsUri)]
  ELSE LET epsg == crsUriToEPSG(crsUri) IN
       IF epsg.type = "throw"
       THEN [NotCalled EXCEPT !.pc = "done", !.uri = crsUri,
               !.outcome = "thrown", !.value = epsg.value]
       ELSE [NotCalled EXCEPT !.pc = "fetching", !.uri = crsUri,
               !.url = EpsgIoUrl(epsg.value)]

LoadCall(c, crsUri) ==
  /\ calls[c].pc = "idle"
  /\ \A d \in Calls : d < c => calls[d].pc # "idle"
  /\ LET call == loadSync(projCache, crsUri) IN
       /\ calls' = [calls EXCEPT ![c] = call]
       /\ requests' = IF call.pc = "fetching"
                      THEN Append(requests, call.url) ELSE requests
  /\ UNCHANGED <<projCache, nSets, last>>

\* the first callback without the test of response.ok
onResponse_IgnoresOk(call, response) ==
  [call EXCEPT !.pc = "text", !.response = response]

\* the first callback keeping the chain pending on a response that is
\* not ok instead of throwing
onResponse_SwallowsError(call, response) ==
  IF ~response.ok
  THEN [call EXCEPT !.pc = "lost", !.response = response]
  ELSE [call EXCEPT !.pc = "text", !.response = response]

\* the first .then callback: throws on a response that is not ok,
\* otherwise starts reading the body
onResponse(call, response) ==
  IF ~response.ok
  THEN [call EXCEPT !.pc = "done", !.response = response,
          !.outcome = "rejected",
          !.value = Err("Error", <<"HTTP response code: ", response.status>>)]
  ELSE [call EXCEPT !.pc = "text", !.response = response]

FetchResponds(c, response) ==
  /\ calls[c].pc = "fetching"
  /\ calls' = [calls EXCEPT ![c] = onResponse(calls[c], response)]
  /\ UNCHANGED <<projCache, requests, nSets, last>>

\* fetch() rejects (no response at all): neither callback runs and the
\* rejection passes down the chain
FetchFails(c) ==
  /\ calls[c].pc = "fetching"
  /\ calls' = [calls EXCEPT ![c] =
                 [calls[c] EXCEPT !.pc = "done", !.outcome = "rejected",
                    !.value = Err("TypeError", <<"Network request failed">>)]]
  /\ UNCHANGED <<projCache, requests, nSets, last>>

\* the second .then callback, run with the body text:
\* set(crsUri, proj4string, {reverseAxes: crsUri in needsAxesReordering})
onText(cache, call) ==
  set(cache, Str(call.uri), Str(call.response.body),
      Options(In(call.uri, needsAxesReordering)))

TextArrives(c) ==
  /\ calls[c].pc = "text"
  /\ LET done == onText(projCache, calls[c]) IN
       /\ projCache' = done.cache
       /\ calls' = [calls EXCEPT ![c] =
                      [calls[c] EXCEPT !.pc = "done", !.setCalled = TRUE,
                         !.outcome = IF done.type = "return"
                                     THEN "resolved" ELSE "rejected",
                         !.value = done.value]]
  /\ UNCHANGED <<requests, nSets, last>>

(* --------------------------- get() and set() ---------------------------- *)
GetCall(crsUri) ==
  /\ last' = [op |-> "get", crsUri |-> Str(crsUri),
              value |-> get(projCache, crsUri)]
  /\ UNCHANGED <<projCache, calls, requests, nSets>>

SetCall(crsUri, proj, options) ==
  /\ nSets < MaxSets
  /\ LET done == set(projCache, crsUri, proj, options) IN
       /\ projCache' = done.cache
       /\ last' = [op |-> "set", crsUri |-> crsUri, proj |-> proj,
                   options |-> options, type |-> done.type,
                   value |-> done.value]
  /\ nSets' = nSets + 1
  /\ UNCHANGED <<calls, requests>>

Next ==
  \/ \E c \in Calls, u \in Uris : LoadCall(c, u)
  \/ \E c \in Calls, r \in Responses : FetchResponds(c, r)
  \/ \E c \in Calls : FetchFails(c)
  \/ \E c \in Calls : TextArrives(c)
  \/ \E u \in GetsDuringLoads : GetCall(u)
  \/ \E a \in SetsDuringLoads : SetCall(a[1], a[2], a[3])

Spec == Init /\ [][Next]_vars

\* Every request is answered or fails in the end (the transport has no
\* way to stay silent for ever), and a Promise callback whose input has
\* arrived is run by the job queue; the caller is under no obligation.
SpecLive ==
  /\ Spec
  /\ \A c \in Calls :
       /\ WF_vars((\E r \in Responses : FetchResponds(c, r)) \/ FetchFails(c))
       /\ WF_vars(TextArrives(c))

\* reverseAxes(proj) applied to a projection and the wrapper it returns
\* used on a coordinate pair; proj is the argument as it is after the call
Projections == {LONLAT, proj4(Str(TMERC_DEF)), UserP, UserQ,
                reverseAxes(LONLAT), reverseAxes(UserP)}
ApplyReverseAxes(proj, pos) ==
  /\ LET wrapper == reverseAxes(proj) IN
       last' = [op |-> "reverseAxes", proj |-> proj, pos |-> pos,
                value |-> wrapper,
                forward |-> forward(wrapper, pos),
                inverse |-> inverse(wrapper, pos)]
  /\ UNCHANGED <<projCache, calls, requests, nSets>>

NextAxes == \E proj \in Projections, pos \in Coords : ApplyReverseAxes(proj, pos)

SpecAxes == Init /\ [][NextAxes]_vars

\* the synchronous interface alone, over every combination of arguments
NextSync ==
  \/ \E u \in Uris : GetCall(u)
  \/ \E u \in SetUris, p \in Sources, o \in OptionArgs : SetCall(u, p, o)

SpecSync == Init /\ [][NextSync]_vars

(* ------------------------- vocabulary of the claims --------------------- *)
\* s begins with p
BeginsWith(s, p) == Len(s) >= Len(p) /\ SubSeq(s, 1, Len(p)) = p
\* this step is the call of load() number c
Started(c) == calls[c].pc = "idle" /\ calls'[c].pc # "idle"
\* this step settles the Promise of call c
Settled(c) == calls[c].pc # "done" /\ calls'[c].pc = "done"
\* this step belongs to call c
StepOf(c) == calls'[c] # calls[c]
\* the number of requests call record r has issued
Issued(r) == IF r.url = <<>> THEN 0 ELSE 1
\* this step is a set() call by the caller; last' then describes it
SetStep == nSets' = nSets + 1
\* the arguments of a recorded set() call are both non-empty
ValidArgs(r) == Truthy(r.crsUri) /\ Truthy(r.proj)
IsString(v) == v.t = "string"
IsProjection(v) == v.t = "object"
HttpError(status) == Err("Error", <<"HTTP response code: ", status>>)
UnsupportedURI(uri) == Err("Error", <<"Unsupported CRS URI: ">> \o uri)
InvalidArgument == Err("Error", <<"crsUri and proj cannot be empty">>)
ParseError(string) == Err("Error", <<"Unsupported proj4 string: ">> \o string)

(* --------------------------------- C1 ----------------------------------- *)
\* a load(uri) called while uri is in the cache issues no request, leaves
\* the cache unchanged and resolves with the cached value
CachedLoad(c) ==
  (Started(c) /\ In(calls'[c].uri, projCache)) =>
     /\ requests' = requests
     /\ projCache' = projCache
     /\ calls'[c].pc = "done"
     /\ calls'[c].outcome = "resolved"
     /\ calls'[c].value = Lookup(projCache, calls'[c].uri)

\* call c starts after call d, for the same uri, has resolved
Reload(c, d) ==
  /\ d # c
  /\ Started(c)
  /\ calls[d].uri = calls'[c].uri
  /\ calls[d].outcome = "resolved"

\* C1 as stated: a load called on a cached uri issues no request, leaves
\* the cache unchanged and resolves with the cached projection, and a
\* load(uri) that resolved followed by another load(uri) makes exactly one
\* network request for uri in total.
C1_ExactlyOneRequest ==
  [][\A c \in Calls :
       /\ CachedLoad(c)
       /\ \A d \in Calls :
            Reload(c, d) => Issued(calls[d]) + Issued(calls'[c]) = 1]_vars

\* C1 amended: a load called on a cached uri issues no request, leaves the
\* cache unchanged and resolves with the cached projection; after a
\* load(uri) has resolved, another load(uri) issues no request, so the two
\* calls issue at most one request for uri in total.
C1_CachedLoadIssuesNoRequest ==
  [][\A c \in Calls :
       /\ CachedLoad(c)
       /\ \A d \in Calls :
            Reload(c, d) =>
              /\ requests' = requests
              /\ Issued(calls'[c]) = 0
              /\ Issued(calls[d]) + Issued(calls'[c]) <= 1]_vars

\* load(CRS84) has resolved twice and nothing was requested
C1_Witness ==
  /\ calls[1].uri = CRS84 /\ calls[1].outcome = "resolved"
  /\ calls[2].uri = CRS84 /\ calls[2].outcome = "resolved"
  /\ calls[2].value = projCache[CRS84]
  /\ requests = <<>>

(* --------------------------------- C2 ----------------------------------- *)
\* C2, with the case it is about (the test "#load should cache loaded
\* projections"): a load of an uncached EPSG uri whose request is answered
\* ok with a definition proj4 can construct resolves, the cache then holds
\* an entry for uri, and get(uri) right after is the value it resolved
\* with.
C2_LoadCachesProjection ==
  [][\A c \in Calls :
       (/\ Settled(c)
        /\ calls[c].pc = "text"
        /\ BeginsWith(calls[c].uri, EPSG_PREFIX)
        /\ Truthy(proj4(Str(calls[c].response.body))))
       => /\ calls'[c].outcome = "resolved"
          /\ calls'[c].uri \in DOMAIN projCache'
          /\ get(projCache', calls'[c].uri) = calls'[c].value]_vars

(* --------------------------------- C3 ----------------------------------- *)
\* C3: set(uri, string) with a non-empty uri and a definition string that
\* proj4 constructs a projection from returns the parsed projection and
\* stores it under uri, so get(uri) right after is a projection.
C3_SetStoresParsedString ==
  [][(/\ SetStep
      /\ ValidArgs(last')
      /\ IsString(last'.proj)
      /\ Truthy(proj4(last'.proj)))
     => /\ last'.type = "return"
        /\ IsProjection(last'.value)
        /\ last'.crsUri.s \in DOMAIN projCache'
        /\ get(projCache', last'.crsUri.s) = last'.value]_vars

(* --------------------------------- C4 ----------------------------------- *)
\* this step writes the cache entry of uri u
WriteTo(u) ==
  \/ SetStep /\ last'.type = "return" /\ last'.crsUri = Str(u)
  \/ \E c \in Calls :
       /\ Settled(c) /\ calls[c].pc = "text" /\ calls[c].uri = u
       /\ calls'[c].outcome = "resolved"

\* C4: set(uri, P) with a non-empty uri and a ready-made projection P,
\* without reverseAxes, returns P and stores P itself under uri in place of
\* any earlier entry; an entry changes only in a step that writes to its
\* uri, so get(uri) is P until the next write to uri.
C4_SetStoresProjection ==
  [][/\ (/\ SetStep
         /\ ValidArgs(last')
         /\ IsProjection(last'.proj)
         /\ ~Truthy(ReverseAxesOf(DefaultOptions(last'.options))))
        => /\ last'.type = "return"
           /\ last'.value = last'.proj
           /\ last'.crsUri.s \in DOMAIN projCache'
           /\ get(projCache', last'.crsUri.s) = last'.proj
     /\ \A u \in DOMAIN projCache :
          (get(projCache', u) # get(projCache, u)) => WriteTo(u)]_vars

\* set(CRS84, P) has replaced the pre-seeded entry with P
C4_Witness ==
  /\ last.op = "set" /\ last.crsUri = Str(CRS84) /\ last.proj = UserP
  /\ last.type = "return"
  /\ InitialCache[CRS84] = LONLAT
  /\ projCache[CRS84] = UserP

C7_HttpErrorWithoutSet ==
  [][\A c \in Calls :
       (StepOf(c) /\ calls'[c].response # Undefined /\ ~calls'[c].response.ok)
       => /\ calls'[c].pc = "done"
          /\ calls'[c].outcome = "rejected"
          /\ calls'[c].value = HttpError(calls'[c].response.status)
          /\ ~calls'[c].setCalled
          /\ projCache' = projCache]_vars

\* a load of an uncached EPSG uri was answered 404 and there is no entry
C7_Witness ==
  \E c \in Calls :
    /\ calls[c].uri = EPSG27700 /\ calls[c].pc = "done"
    /\ calls[c].response # Undefined /\ calls[c].response.status = "404"
    /\ calls[c].value = HttpError("404")
    /\ EPSG27700 \notin DOMAIN projCache

(* --------------------------------- C8 ----------------------------------- *)
\* C8: set() with an empty or absent uri, or an empty or absent source,
\* throws the "cannot be empty" error and leaves the cache as it was,
\* whatever the other arguments are.
C8_EmptyArgumentsRejected ==
  [][(SetStep /\ ~ValidArgs(last'))
     => /\ last'.type = "throw"
        /\ last'.value = InvalidArgument
        /\ projCache' = projCache]_vars

\* set(uri, null) has thrown, after another set() call that stored
\* nothing, and the cache is as the module initialised it
C8_Witness ==
  /\ nSets = 2
  /\ last.op = "set" /\ last.crsUri = Str(EPSG27700) /\ last.proj = Null
  /\ last.type = "throw"
  /\ projCache = InitialCache

(* --------------------------------- C9 ----------------------------------- *)
\* C9: set(uri, string) with a non-empty string that proj4 cannot
\* construct a projection from throws the "Unsupported proj4 string" error
\* carrying the string and leaves the cache as it was.
C9_ParseErrorCarriesString ==
  [][(/\ SetStep
      /\ ValidArgs(last')
      /\ IsString(last'.proj)
      /\ ~Truthy(proj4(last'.proj)))
     => /\ last'.type = "throw"
        /\ last'.value = ParseError(last'.proj.s)
        /\ projCache' = projCache]_vars

(* --------------------------------- C10 ---------------------------------- *)
\* C10: no load() call ends by throwing out of the call itself; every
\* failure is a rejection of the returned Promise.
C10_LoadNeverThrows ==
  \A c \in Calls : calls[c].outcome # "thrown"

(* --------------------------------- C11 ---------------------------------- *)
\* C11: as long as the caller has made no set() call, whatever loads are
\* under way, the cache holds under the CRS84 uri a projection whose
\* forward and inverse leave every coordinate pair as it is, and under the
\* EPSG 4979 uri one whose forward turns [lon,lat] into [lat,lon] and whose
\* inverse turns [lat,lon] into [lon,lat].
C11_PreSeededEntries ==
  nSets = 0 =>
    /\ CRS84 \in DOMAIN projCache
    /\ EPSG4979 \in DOMAIN projCache
    /\ \A pos \in Coords :
         /\ forward(get(projCache, CRS84), pos) = pos
         /\ inverse(get(projCache, CRS84), pos) = pos
         /\ forward(get(projCache, EPSG4979), pos) = <<pos[2], pos[1]>>
         /\ inverse(get(projCache, EPSG4979), <<pos[2], pos[1]>>) = pos

\* the state right after the module has been loaded: no call, no request
C11_Witness ==
  /\ nSets = 0 /\ requests = <<>> /\ last.op = "none"
  /\ \A c \in Calls : calls[c].pc = "idle"
  /\ forward(get(projCache, EPSG4979), <<1, 2>>) = <<2, 1>>
  /\ forward(get(projCache, CRS84), <<1, 2>>) = <<1, 2>>

(* --------------------------------- C12 ---------------------------------- *)
\* this step is the last one of a load whose request was answered ok with
\* a definition proj4 can construct
FetchSucceeds(c) ==
  /\ Settled(c)
  /\ calls[c].pc = "text"
  /\ Truthy(proj4(Str(calls[c].response.body)))
\* the projection proj4 constructs from the definition call c received
Fetched(c) == proj4(Str(calls[c].response.body))
\* the uris of the axis-reordering exception list
Listed(uri) == uri \in DOMAIN needsAxesReordering

\* C12: a load that fetches successfully resolves with, and caches, the
\* axis-reversed parsed projection when its uri is on the axis-reordering
\* exception list (EPSG 4326), and the parsed projection itself otherwise.
C12_LoadReversesListedUris ==
  [][\A c \in Calls :
       FetchSucceeds(c)
       => /\ calls'[c].outcome = "resolved"
          /\ calls'[c].value = IF Listed(calls[c].uri)
                               THEN reverseAxes(Fetched(c))
                               ELSE Fetched(c)
          /\ calls[c].uri \in DOMAIN projCache'
          /\ projCache'[calls[c].uri] = calls'[c].value]_vars

(* --------------------------------- C13 ---------------------------------- *)
\* this step is a set() call by the caller that returned
SetSucceeds == SetStep /\ last'.type = "return"
\* the projection a recorded set() call was given, parsed when textual
SourceProjection(r) == IF IsString(r.proj) THEN proj4(r.proj) ELSE r.proj
\* options.reverseAxes of a recorded set() call is true
WantsReversed(r) == Truthy(ReverseAxesOf(DefaultOptions(r.options)))

\* C13 as stated: every successful set(uri, source, options), textual or
\* ready-made, stores the axis-reversed projection, whose forward output
\* is the reverse of the plain one's, when options.reverseAxes is true,
\* and the plain projection when it is false or absent.
C13_OptionAppliesToEverySource ==
  [][SetSucceeds
     => LET stored == get(projCache', last'.crsUri.s)
            plain == SourceProjection(last')
        IN IF WantsReversed(last')
           THEN /\ stored = reverseAxes(plain)
                /\ \A pos \in Coords :
                     forward(stored, pos) = ReverseArray(forward(plain, pos))
           ELSE stored = plain]_vars

\* C13, amended: a successful set(uri, P, options) with a ready-made
\* projection P stores and returns P itself whatever options.reverseAxes
\* is, so the stored forward and inverse are those of P.
C13_ObjectsStoredAsGiven ==
  [][(SetSucceeds /\ IsProjection(last'.proj))
     => LET stored == get(projCache', last'.crsUri.s) IN
          /\ stored = last'.proj
          /\ last'.value = last'.proj
          /\ \A pos \in Coords :
               /\ forward(stored, pos) = forward(last'.proj, pos)
               /\ inverse(stored, pos) = inverse(last'.proj, pos)]_vars

\* set(uri, P, {reverseAxes: true}) has returned and the entry of uri is P
C13_Witness ==
  /\ last.op = "set" /\ last.type = "return"
  /\ last.proj = UserP
  /\ last.options = Options(TRUE)
  /\ get(projCache, last.crsUri.s) = UserP

(* --------------------------------- C14 ---------------------------------- *)
\* C14: for a projection P, its wrapper P' = reverseAxes(P) and a
\* coordinate pair pos, P'.forward(pos) is P.forward(pos) with its two
\* components exchanged and P'.inverse(pos) is P.inverse of pos with its
\* components exchanged, so P'.inverse(P'.forward(pos)) equals
\* P.inverse(P.forward(pos)); the wrapper refers to P, which is as it was.
C14_AxisCorrector ==
  last.op = "reverseAxes" =>
    LET P == last.proj
        pos == last.pos
    IN /\ last.forward = <<forward(P, pos)[2], forward(P, pos)[1]>>
       /\ last.inverse = inverse(P, <<pos[2], pos[1]>>)
       /\ inverse(last.value, last.forward) = inverse(P, forward(P, pos))
       /\ last.value.of = P
       /\ last.value # P

\* the wrapper of a projection that is not symmetric in its components has
\* been applied to a pair with two different components
C14_Witness ==
  /\ last.op = "reverseAxes"
  /\ last.proj = UserP
  /\ last.pos = <<1, 2>>
  /\ last.forward = <<2, 3>>
  /\ last.inverse = <<1, 1>>

(* --------------------------------- C15 ---------------------------------- *)
\* C15: no step of get, set or load removes a uri from the cache: every
\* uri that has an entry before a step has one after it.
C15_CacheOnlyGrows ==
  [][DOMAIN projCache \subseteq DOMAIN projCache']_vars

\* the cache has gained an entry and an initial entry has been overwritten,
\* and both initial uris are still there
C15_Witness ==
  /\ nSets = MaxSets
  /\ EPSG4326 \in DOMAIN projCache
  /\ projCache[CRS84] = UserQ
  /\ EPSG4979 \in DOMAIN projCache
  /\ \E c \in Calls : calls[c].pc = "done" /\ calls[c].setCalled

(* --------------------------------- C16 ---------------------------------- *)
\* this step is a get() call by the caller; last' then describes it
GetStep == nSets' = nSets /\ last'.op = "get" /\ last' # last

\* C16: a get(uri) call issues no request and leaves the cache as it is;
\* it returns the projection now stored under uri, and undefined when
\* nothing has been stored under uri.
C16_GetIsPureLookup ==
  [][GetStep
     => /\ requests' = requests
        /\ projCache' = projCache
        /\ last'.value = IF last'.crsUri.s \in DOMAIN projCache
                         THEN projCache[last'.crsUri.s]
                         ELSE Undefined]_vars

(* --------------------------------- C17 ---------------------------------- *)
\* the value a successfully fetching load is to store and resolve with
Loaded(c) ==
  IF Listed(calls[c].uri) THEN reverseAxes(Fetched(c)) ELSE Fetched(c)

\* C17: two load() calls for the same uri that both found it uncached each
\* have a request of their own in the request list, and each of them that
\* fetches successfully writes the entry of uri on completing, so that the
\* entry is the projection of the call that has completed last.
C17_ConcurrentLoadsEachWrite ==
  [][\A c, d \in Calls :
       (/\ c # d
        /\ FetchSucceeds(c)
        /\ calls[d].uri = calls[c].uri
        /\ Issued(calls[d]) = 1)
       => /\ Issued(calls[c]) = 1
          /\ Len(SelectSeq(requests, LAMBDA r : r = calls[c].url)) >= 2
          /\ calls[c].uri \in DOMAIN projCache'
          /\ projCache'[calls[c].uri] = Loaded(c)]_vars

(* --------------------------------- C18 ---------------------------------- *)
\* C18 (test "#load should cache loaded projections"): a load(uri) that
\* fetches successfully resolves, and from then on proj4 knows the
\* definition under the name uri: proj4(uri) gives a projection.
C18_LoadRegistersWithProj4 ==
  [][\A c \in Calls :
       FetchSucceeds(c)
       => /\ calls'[c].outcome = "resolved"
          /\ Truthy(proj4(Str(calls[c].uri)))]_vars

(* --------------------------------- C19 ---------------------------------- *)
\* C19: every load() call that has been made ends: it resolves, is
\* rejected with an error, or has thrown one; no call stays pending for
\* ever, whatever load, get and set calls are interleaved with it.
C19_EveryLoadSettles ==
  \A c \in Calls :
    (calls[c].pc # "idle")
      ~> (/\ calls[c].pc = "done"
          /\ calls[c].outcome \in {"resolved", "rejected", "thrown"})

\* a load that issued a request and got an ok response has settled after
\* a set() call and another load were made in between
C19_Witness ==
  /\ calls[1].pc = "done" /\ calls[1].url # <<>> /\ calls[1].setCalled
  /\ calls[1].outcome \in {"resolved", "rejected"}
  /\ calls[2].pc = "done" /\ calls[2].url # <<>>
  /\ nSets > 0

(* --------------------------------- C20 ---------------------------------- *)
\* C20: a load whose uri has received an entry X by set() while its request
\* was pending does not look at the cache again: when it fetches
\* successfully, its completion puts the fetched projection in place of X.
C20_CompletionOverwritesSet ==
  [][\A c \in Calls :
       (/\ FetchSucceeds(c)
        /\ calls[c].uri \in DOMAIN projCache)
       => /\ projCache'[calls[c].uri] = Loaded(c)
          /\ projCache'[calls[c].uri] # projCache[calls[c].uri]]_vars

====
